---- MODULE Spec2Model ----
(***************************************************************************)
(* Model of the query path of ska_sdp_global_sky_model/api/app/crud.py:    *)
(* get_local_sky_model, get_coverage_range and get_sources_by_criteria,    *)
(* over the tables of api/app/model.py.                                    *)
(*                                                                         *)
(* The sky is a grid of NRa x NDec cells.  One RA unit is 360/NRa degrees  *)
(* (RA is cyclic), one Dec unit is 180/(NDec-1) degrees; Dec 0 is -90 deg  *)
(* and Dec NDec-1 is +90 deg.  A HEALPix pixel index is the cell's rank in *)
(* row-major order, a Point is a pixel index and a Tile is a half-open     *)
(* range of pixel indices, as healpix_alchemy stores them (bigint and      *)
(* int8range).                                                             *)
(***************************************************************************)
EXTENDS Integers, Sequences, FiniteSets, TLC

\* ---- bounds of the model ----
NRa == 5
NDec == 3
MaxCalls == 2

Procs == {"p1", "p2"}

\* 360.0 of crud.py:109,122,123 and the 90 of crud.py:111
FullCircle == 360
MaxDec == 90

VARIABLES
    sources,    \* the "sources" table (model.py Source rows)
    aoi,        \* the AOI table: rows [id, hpx]
    next_id,    \* the AOI primary-key sequence
    pc,         \* per request: position inside get_local_sky_model
    req,        \* per request: the arguments ra, dec
    corners,    \* per request: the SkyCoord built at crud.py:62
    areas,      \* per request: the hpx of each pending AOI, in list order
    aoi_ids,    \* per request: the ids read back at crud.py:69
    found,      \* per request: sources_in_area_of_interest
    result,     \* per request: the returned dictionary
    calls,      \* number of get_local_sky_model calls started
    ret         \* last value returned (or raised) by a pure query function

vars == <<sources, aoi, next_id, pc, req, corners, areas, aoi_ids, found,
          result, calls, ret>>

\* ------------------------------------------------------------------------
\* helpers
\* ------------------------------------------------------------------------
Abs(x) == IF x < 0 THEN -x ELSE x

Range(a, b) == IF a <= b THEN a..b ELSE b..a

SeqToSet(s) == {s[i] : i \in 1..Len(s)}

\* the elements of a set of ranges as a list ordered by lower bound
RECURSIVE SortedSeq(_)
SortedSeq(S) ==
    IF S = {} THEN <<>>
    ELSE LET m == CHOOSE x \in S : \A y \in S : x[1] <= y[1]
         IN <<m>> \o SortedSeq(S \ {m})

NoValue == [kind |-> "none"]

\* ------------------------------------------------------------------------
\* model.py: Source rows.  Heal_Pix_Position is the pixel of (RAJ2000,
\* DecJ2000), set at ingestion.
\* ------------------------------------------------------------------------
Pix(ra, dec) == dec * NRa + ra

NPix == NRa * NDec

Source(id, ra, dec, flux) ==
    [id |-> id, RAJ2000 |-> ra, DecJ2000 |-> dec,
     Heal_Pix_Position |-> Pix(ra, dec), Flux_Wide |-> flux]

\* one source in every cell of the sky
FullSky == {Source(Pix(r, d) + 1, r, d, 1 + (r % 2)) : r \in 0..(NRa - 1), d \in 0..(NDec - 1)}

\* two neighbouring sources and one far away
ThreeSources == {Source(1, 1, 1, 1), Source(2, 1, 1, 2), Source(3, 3, 1, 1)}

Catalogs == {FullSky, ThreeSources, {}}

\* the AOI row built at crud.py:63 and keyed at crud.py:69
AOI(id, hpx) == [id |-> id, hpx |-> hpx]

\* ------------------------------------------------------------------------
\* crud.py:62  SkyCoord(ra, dec, frame="icrs", unit="deg")
\* ------------------------------------------------------------------------
\* astropy wraps a longitude into [0, 360)
Longitude(ra) == ra % NRa

\* astropy rejects a latitude outside [-90, 90]
LatitudeOK(dec) == 0 <= dec /\ dec <= NDec - 1

\* the coordinates are paired element by element
SkyCoord(ra, dec) ==
    [i \in 1..Len(ra) |-> <<Longitude(ra[i]), dec[i]>>]

SkyCoordOK(ra, dec) == \A i \in 1..Len(dec) : LatitudeOK(dec[i])

\* ------------------------------------------------------------------------
\* crud.py:63  Tile.tiles_from(corners)
\* ------------------------------------------------------------------------
\* signed RA step along the shorter arc from a to b
ShortArc(a, b) ==
    LET d == (b - a) % NRa
    IN IF 2 * d > NRa THEN d - NRa ELSE d

\* the cells touched by the arc from vertex v to vertex w
ArcCells(v, w) ==
    LET dx == ShortArc(v[1], w[1])
        dy == w[2] - v[2]
    IN {<<(v[1] + i) % NRa, v[2] + j>> :
            <<i, j>> \in {ij \in Range(0, dx) \X Range(0, dy) :
                            2 * Abs(ij[1] * dy - ij[2] * dx) <= Abs(dx) + Abs(dy)}}

\* the cells of the polygon whose vertices are the given coordinates: the
\* cells its edges touch.  (crud.py:62 builds two vertices, so the polygon
\* has no interior.)
PolygonCells(c) ==
    UNION {ArcCells(c[i], c[(i % Len(c)) + 1]) : i \in 1..Len(c)}

\* maximal runs of pixel indices, as half-open ranges <<lo, hi>>
Ranges(S) ==
    {<<lo, hi>> \in (0..NPix) \X (0..NPix) :
        /\ lo < hi
        /\ \A k \in lo..(hi - 1) : k \in S
        /\ (lo - 1) \notin S
        /\ hi \notin S}

tiles_from(c) ==
    SortedSeq(Ranges({Pix(cell[1], cell[2]) : cell \in PolygonCells(c)}))

\* crud.py:72  AOI.hpx.contains(Source.Heal_Pix_Position)
Contains(hpx, point) == hpx[1] <= point /\ point < hpx[2]

\* ------------------------------------------------------------------------
\* requests
\* ------------------------------------------------------------------------
RaPairs == {<<0, 2>>, <<1, 1>>, <<NRa - 1, 1>>, <<NRa, NRa + 2>>}
DecPairs == {<<0, 2>>, <<1, 1>>, <<0, NDec>>}

Init ==
    /\ sources \in Catalogs
    /\ aoi = {}
    /\ next_id = 1
    /\ pc = [p \in Procs |-> "idle"]
    /\ req = [p \in Procs |-> NoValue]
    /\ corners = [p \in Procs |-> <<>>]
    /\ areas = [p \in Procs |-> <<>>]
    /\ aoi_ids = [p \in Procs |-> <<>>]
    /\ found = [p \in Procs |-> {}]
    /\ result = [p \in Procs |-> NoValue]
    /\ calls = 0
    /\ ret = NoValue

\* crud.py:62-63: build the corners and the pending AOI objects, or raise
\* the ValueError of SkyCoord
Call(p, ra, dec) ==
    /\ pc[p] = "idle"
    /\ calls < MaxCalls
    /\ calls' = calls + 1
    /\ req' = [req EXCEPT ![p] = [kind |-> "region", ra |-> ra, dec |-> dec]]
    /\ IF SkyCoordOK(ra, dec)
       THEN /\ corners' = [corners EXCEPT ![p] = SkyCoord(ra, dec)]
            /\ areas' = [areas EXCEPT ![p] = tiles_from(SkyCoord(ra, dec))]
            /\ pc' = [pc EXCEPT ![p] = "persist"]
       ELSE /\ pc' = [pc EXCEPT ![p] = "failed"]
            /\ UNCHANGED <<corners, areas>>
    /\ UNCHANGED <<sources, aoi, next_id, aoi_ids, found, result, ret>>

\* the persist step preceded by a clean-up of the rows of earlier requests
PersistAfterCleanUp(p) ==
    /\ pc[p] = "persist"
    /\ aoi' = {AOI(next_id + i - 1, areas[p][i]) : i \in 1..Len(areas[p])}
    /\ next_id' = next_id + Len(areas[p])
    /\ aoi_ids' = [aoi_ids EXCEPT ![p] = [i \in 1..Len(areas[p]) |-> next_id + i - 1]]
    /\ pc' = [pc EXCEPT ![p] = "join"]
    /\ UNCHANGED <<sources, req, corners, areas, found, result, calls, ret>>

\* the persist step reading back the id of every row of the table
PersistCollectAllIds(p) ==
    /\ pc[p] = "persist"
    /\ aoi' = aoi \cup {AOI(next_id + i - 1, areas[p][i]) : i \in 1..Len(areas[p])}
    /\ next_id' = next_id + Len(areas[p])
    /\ aoi_ids' = [aoi_ids EXCEPT ![p] = [i \in 1..(next_id + Len(areas[p]) - 1) |-> i]]
    /\ pc' = [pc EXCEPT ![p] = "join"]
    /\ UNCHANGED <<sources, req, corners, areas, found, result, calls, ret>>

\* crud.py:66-67: db.add of every pending AOI, then db.commit: every row is
\* inserted under a fresh primary key
Persist(p) ==
    /\ pc[p] = "persist"
    /\ aoi' = aoi \cup {AOI(next_id + i - 1, areas[p][i]) : i \in 1..Len(areas[p])}
    /\ next_id' = next_id + Len(areas[p])
    /\ aoi_ids' = [aoi_ids EXCEPT ![p] = [i \in 1..Len(areas[p]) |-> next_id + i - 1]]
    /\ pc' = [pc EXCEPT ![p] = "join"]
    /\ UNCHANGED <<sources, req, corners, areas, found, result, calls, ret>>

\* the join without the AOI.id.in_(aoi_ids) filter
JoinRowsAnyAOI(ids) ==
    {<<s, a>> \in sources \X aoi : Contains(a.hpx, s.Heal_Pix_Position)}

\* crud.py:70-74: the rows of sources x aoi that pass both filters
JoinRows(ids) ==
    {<<s, a>> \in sources \X aoi :
        a.id \in SeqToSet(ids) /\ Contains(a.hpx, s.Heal_Pix_Position)}

\* Query.all() on a single entity returns each entity once
QueryAll(rows) == {row[1] : row \in rows}

\* the external representation of a Source
to_json(s) == [name |-> s.id, ra |-> s.RAJ2000, dec |-> s.DecJ2000, flux |-> s.Flux_Wide]

\* the join followed by a clean-up that deletes from the sources table
JoinAndCleanUp(p) ==
    /\ pc[p] = "join"
    /\ found' = [found EXCEPT ![p] = QueryAll(JoinRows(aoi_ids[p]))]
    /\ result' = [result EXCEPT ![p] =
          [kind |-> "local_sky_model",
           region |-> [ra |-> req[p].ra, dec |-> req[p].dec],
           count |-> Cardinality(found'[p]),
           sources_in_area_of_interest |-> {to_json(s) : s \in found'[p]}]]
    /\ sources' = sources \ found'[p]
    /\ pc' = [pc EXCEPT ![p] = "done"]
    /\ UNCHANGED <<aoi, next_id, req, corners, areas, aoi_ids, calls, ret>>

\* crud.py:69-89
Join(p) ==
    /\ pc[p] = "join"
    /\ LET sources_in_area_of_interest == QueryAll(JoinRows(aoi_ids[p]))
       IN /\ found' = [found EXCEPT ![p] = sources_in_area_of_interest]
          /\ result' = [result EXCEPT ![p] =
                [kind |-> "local_sky_model",
                 region |-> [ra |-> req[p].ra, dec |-> req[p].dec],
                 count |-> Cardinality(sources_in_area_of_interest),
                 sources_in_area_of_interest |->
                     {to_json(s) : s \in sources_in_area_of_interest}]]
    /\ pc' = [pc EXCEPT ![p] = "done"]
    /\ UNCHANGED <<sources, aoi, next_id, req, corners, areas, aoi_ids, calls, ret>>

\* the caller takes the result (or the error) and the request ends
Return(p) ==
    /\ pc[p] \in {"done", "failed"}
    /\ pc' = [pc EXCEPT ![p] = "idle"]
    /\ req' = [req EXCEPT ![p] = NoValue]
    /\ corners' = [corners EXCEPT ![p] = <<>>]
    /\ areas' = [areas EXCEPT ![p] = <<>>]
    /\ aoi_ids' = [aoi_ids EXCEPT ![p] = <<>>]
    /\ found' = [found EXCEPT ![p] = {}]
    /\ result' = [result EXCEPT ![p] = NoValue]
    /\ UNCHANGED <<sources, aoi, next_id, calls, ret>>

\* ------------------------------------------------------------------------
\* crud.py:92-129  get_coverage_range.  Arguments are whole degrees; the
\* returned bounds are counted in half degrees, so that fov / 2.0 is exact.
\* ------------------------------------------------------------------------
ValueError(msg) == [kind |-> "ValueError", msg |-> msg]

\* the RA check with an inclusive upper bound
RaInDomainInclusive(ra) == 0 <= ra /\ ra <= FullCircle

\* crud.py:109
RaInDomain(ra) == 0 <= ra /\ ra < FullCircle

\* the wrap-around of crud.py:122 applied with the sign of the dividend
WrapTruncated(x) == IF x < 0 THEN -((-x) % (2 * FullCircle)) ELSE x % (2 * FullCircle)

\* crud.py:122-123: x % 360.0, on half degrees
Wrap(x) == x % (2 * FullCircle)

get_coverage_range(ra, dec, fov) ==
    IF fov <= 0 THEN ValueError("Field of view must be a positive value.")
    ELSE IF ~RaInDomain(ra)
    THEN ValueError("Right Ascension (RA) must be between 0 and 360 degrees.")
    ELSE IF ~(-MaxDec <= dec /\ dec <= MaxDec)
    THEN ValueError("Declination (Dec) must be between -90 and 90 degrees.")
    ELSE LET fov_radius == fov
         IN [kind |-> "range",
             ra_min |-> Wrap(2 * ra - fov_radius),
             ra_max |-> Wrap(2 * ra + fov_radius),
             dec_min |-> 2 * dec - fov_radius,
             dec_max |-> 2 * dec + fov_radius]

RaInputs == {-1, 0, 1, 179, 180, 358, 359, 360, 361}
DecInputs == {-91, -90, -1, 0, 45, 90, 91}
FovInputs == {-1, 0, 1, 2, 4, 180, 359, 360, 361, 400, 720, 725}

CoverageRange(ra, dec, fov) ==
    /\ ret' = [kind |-> "call", fn |-> "get_coverage_range",
               args |-> [ra |-> ra, dec |-> dec, fov |-> fov],
               out |-> get_coverage_range(ra, dec, fov)]
    /\ UNCHANGED <<sources, aoi, next_id, pc, req, corners, areas, aoi_ids,
                   found, result, calls>>

\* ------------------------------------------------------------------------
\* crud.py:135-176  get_sources_by_criteria.  A criterion is a set: {} is
\* None, {v} is the value v.
\* ------------------------------------------------------------------------
\* model.py:22-36: the attributes of Source
SourceColumns ==
    {"id", "name", "RAJ2000", "RAJ2000_Error", "DecJ2000", "DecJ2000_Error",
     "Heal_Pix_Position", "A_Wide", "A_Wide_Error", "B_Wide", "B_Wide_Error",
     "PA_Wide", "PA_Wide_Error", "Flux_Wide", "Flux_Wide_Error"}

\* the attributes the filters read, in the order crud.py reads them
FilterAttrs(ra, dec, flux_wide, telescope, fov) ==
    (IF ra # {} THEN <<"RAJ2000">> ELSE <<>>)
    \o (IF dec # {} THEN <<"DecJ2000">> ELSE <<>>)
    \o (IF flux_wide # {} THEN <<"flux_wide">> ELSE <<>>)
    \o (IF telescope # {} THEN <<"telescope">> ELSE <<>>)
    \o (IF fov # {} THEN <<"fov">> ELSE <<>>)

get_sources_by_criteria(ra, dec, flux_wide, telescope, fov) ==
    LET attrs == FilterAttrs(ra, dec, flux_wide, telescope, fov)
        missing == {i \in 1..Len(attrs) : attrs[i] \notin SourceColumns}
    IN IF missing # {}
       THEN [kind |-> "AttributeError",
             attr |-> attrs[CHOOSE i \in missing : \A j \in missing : i <= j]]
       ELSE [kind |-> "list",
             rows |-> {s \in sources :
                         /\ (ra # {} => s.RAJ2000 \in ra)
                         /\ (dec # {} => s.DecJ2000 \in dec)}]

RaCriteria == {{}, {1}, {7}}
DecCriteria == {{}, {1}, {7}}
FluxCriteria == {{}, {1}}
TelescopeCriteria == {{}, {"SKA-Low"}}
FovCriteria == {{}, {2}}

SourcesByCriteria(ra, dec, flux_wide, telescope, fov) ==
    /\ ret' = [kind |-> "call", fn |-> "get_sources_by_criteria",
               args |-> [ra |-> ra, dec |-> dec, flux_wide |-> flux_wide,
                         telescope |-> telescope, fov |-> fov],
               out |-> get_sources_by_criteria(ra, dec, flux_wide, telescope, fov)]
    /\ UNCHANGED <<sources, aoi, next_id, pc, req, corners, areas, aoi_ids,
                   found, result, calls>>

\* ------------------------------------------------------------------------
\* specifications
\* ------------------------------------------------------------------------
Next ==
    \/ \E p \in Procs, ra \in RaPairs, dec \in DecPairs : Call(p, ra, dec)
    \/ \E p \in Procs : Persist(p)
    \/ \E p \in Procs : Join(p)
    \/ \E p \in Procs : Return(p)

\* concurrent get_local_sky_model requests
Spec == Init /\ [][Next]_vars

NextRange ==
    \E ra \in RaInputs, dec \in DecInputs, fov \in FovInputs : CoverageRange(ra, dec, fov)

\* calls of get_coverage_range
SpecRange == Init /\ [][NextRange]_vars

NextCriteria ==
    \E ra \in RaCriteria, dec \in DecCriteria, flux_wide \in FluxCriteria,
       telescope \in TelescopeCriteria, fov \in FovCriteria :
        SourcesByCriteria(ra, dec, flux_wide, telescope, fov)

\* calls of get_sources_by_criteria
SpecCriteria == Init /\ [][NextCriteria]_vars

NextQueries ==
    \/ Next
    \/ \E ra \in {1, 360} : CoverageRange(ra, 0, 4)
    \/ \E ra \in {{}, {1}}, fov \in FovCriteria : SourcesByCriteria(ra, {}, {}, {}, fov)

\* the three query functions, interleaved
SpecQueries == Init /\ [][NextQueries]_vars

\* ------------------------------------------------------------------------
\* properties
\* ------------------------------------------------------------------------
\* the AOI rows a request inserted
RowsOf(p) == {a \in aoi : a.id \in SeqToSet(aoi_ids[p])}

\* C1: the AOI table holds at most one row per tile identifier (hpx): a
\* call that produces an hpx already persisted reuses the existing row.
C1_OneRowPerTile ==
    \A a \in aoi : \A b \in aoi : a.hpx = b.hpx => a.id = b.id

\* C2: two requests that are in flight together and whose regions share a
\* tile identifier do not each leave their own row for that identifier.
C2_NoConcurrentDuplicate ==
    \A p \in Procs : \A q \in Procs \ {p} :
        (pc[p] = "join" /\ pc[q] = "join") =>
            \A a \in RowsOf(p) : \A b \in RowsOf(q) : a.hpx = b.hpx => a.id = b.id

\* the sources whose position lies in one of the tiles the request collected
InCollectedTiles(p) ==
    {s \in sources : \E i \in 1..Len(areas[p]) : Contains(areas[p][i], s.Heal_Pix_Position)}

\* C3: the join returns exactly the sources whose Heal_Pix_Position is
\* contained in a tile collected for the request, each of them once.
C3_JoinExact ==
    \A p \in Procs :
        pc[p] = "done" =>
            /\ found[p] = InCollectedTiles(p)
            /\ result[p].count = Cardinality(InCollectedTiles(p))
            /\ Cardinality(result[p].sources_in_area_of_interest) = result[p].count

\* a finished request that returned some sources and left out a source
\* that lies in a tile persisted by another request
C3_Witness ==
    \E p \in Procs :
        /\ pc[p] = "done"
        /\ found[p] # {}
        /\ \E s \in sources \ found[p] : \E a \in aoi \ RowsOf(p) :
               Contains(a.hpx, s.Heal_Pix_Position)

\* the source lies inside the requested RA/Dec box (the RA bounds wrap
\* through 0 when the first exceeds the second)
InBox(s, r) ==
    /\ IF r.ra[1] <= r.ra[2]
       THEN r.ra[1] <= s.RAJ2000 /\ s.RAJ2000 <= r.ra[2]
       ELSE r.ra[1] <= s.RAJ2000 \/ s.RAJ2000 <= r.ra[2]
    /\ \E lo \in SeqToSet(r.dec) : lo <= s.DecJ2000
    /\ \E hi \in SeqToSet(r.dec) : s.DecJ2000 <= hi

\* C4: a region query never under-covers: every source inside the
\* requested box is among the returned sources.
C4_NeverUnderCovers ==
    \A p \in Procs :
        pc[p] = "done" => \A s \in sources : InBox(s, req[p]) => s \in found[p]

RangeReturned == ret.kind # "none" /\ ret.fn = "get_coverage_range"

\* the interval [ra - fov/2, ra + fov/2] leaves [0, 360)
CrossesSeam(ra, fov) == 2 * ra - fov < 0 \/ 2 * ra + fov >= 2 * FullCircle

\* the parts of C5 that do not speak of the seam
RangeShape(a, o) ==
    /\ 0 <= o.ra_min /\ o.ra_min < 2 * FullCircle
    /\ 0 <= o.ra_max /\ o.ra_max < 2 * FullCircle
    /\ (a.fov < FullCircle => (o.ra_max - o.ra_min) % (2 * FullCircle) = 2 * a.fov)
    /\ o.dec_max - o.dec_min = 2 * a.fov

C6_Validation ==
    RangeReturned =>
        LET a == ret.args
            badFov == a.fov <= 0
            badRa == a.ra < 0 \/ a.ra >= FullCircle
            badDec == a.dec < -MaxDec \/ a.dec > MaxDec
        IN /\ (badFov \/ badRa \/ badDec) <=> ret.out.kind = "ValueError"
           /\ ~(badFov \/ badRa \/ badDec) <=> ret.out.kind = "range"
           /\ ret.out.kind = "ValueError" =>
                \/ badFov /\ ret.out.msg = "Field of view must be a positive value."
                \/ badRa /\ ret.out.msg = "Right Ascension (RA) must be between 0 and 360 degrees."
                \/ badDec /\ ret.out.msg = "Declination (Dec) must be between -90 and 90 degrees."

\* ra=360 with a valid fov and dec is rejected for its RA
C6_Witness ==
    /\ RangeReturned
    /\ ret.args.ra = FullCircle /\ ret.args.fov > 0 /\ ret.args.dec = MaxDec
    /\ ret.out.kind = "ValueError"
    /\ ret.out.msg = "Right Ascension (RA) must be between 0 and 360 degrees."

\* C7: get_sources_by_criteria returns, for any subset of the five
\* criteria, the list of the sources that match every criterion present.
C7_CriteriaFilter ==
    (ret.kind # "none" /\ ret.fn = "get_sources_by_criteria") =>
        /\ ret.out.kind = "list"
        /\ ret.out.rows =
              {s \in sources :
                  /\ (ret.args.ra # {} => s.RAJ2000 \in ret.args.ra)
                  /\ (ret.args.dec # {} => s.DecJ2000 \in ret.args.dec)
                  /\ (ret.args.flux_wide # {} => s.Flux_Wide \in ret.args.flux_wide)}

\* the corners of the requested box: every pairing of an RA bound with a
\* Dec bound
BoxCorners(r) ==
    {<<Longitude(r.ra[i]), r.dec[j]>> : i \in 1..Len(r.ra), j \in 1..Len(r.dec)}

Malformed(r) ==
    \/ \E i \in 1..Len(r.ra) : r.ra[i] < 0 \/ r.ra[i] >= NRa
    \/ \E j \in 1..Len(r.dec) : r.dec[j] < 0 \/ r.dec[j] > NDec - 1
    \/ Cardinality(BoxCorners(r)) < 3

\* C8: a request with a malformed region fails as a whole: no result and
\* no AOI row of its own.
C8_MalformedRejected ==
    \A p \in Procs :
        (req[p].kind = "region" /\ Malformed(req[p])) =>
            /\ pc[p] = "failed"
            /\ result[p] = NoValue
            /\ RowsOf(p) = {}

\* C9: the polygon handed to the tiler has the corners of the box as its
\* vertices.
C9_PolygonIsBox ==
    \A p \in Procs :
        pc[p] \in {"persist", "join", "done"} =>
            SeqToSet(corners[p]) = BoxCorners(req[p])

\* C10: no query step changes the sources table.
C10_SourcesReadOnly == [][sources' = sources]_vars

\* on a non-empty catalogue, a region query has written AOI rows and
\* returned sources, and one of the other two query functions has returned
C10_Witness ==
    /\ sources # {}
    /\ aoi # {}
    /\ \E p \in Procs : pc[p] = "done" /\ found[p] # {}
    /\ ret.kind # "none"

\* C11: AOI rows are never deleted: every row of the table, with its id and
\* its hpx, is still in the table after every step.
C11_AOINeverDeleted == [][aoi \subseteq aoi']_vars

\* the rows of a request that has returned are still in the table after a
\* later request has persisted rows of its own
C11_Witness ==
    /\ \E a \in aoi : \A p \in Procs : a \notin RowsOf(p)
    /\ \E p \in Procs : pc[p] \in {"join", "done"} /\ RowsOf(p) # {}

\* the sources a region selects from the catalogue, computed from the
\* region and the sources table alone
SourcesOfRegion(r) ==
    LET tiles == tiles_from(SkyCoord(r.ra, r.dec))
    IN {s \in sources : \E i \in 1..Len(tiles) : Contains(tiles[i], s.Heal_Pix_Position)}

\* C12: the sources and the count a call returns are determined by its own
\* region and the catalogue; the join uses only the AOI rows the call
\* itself inserted.
C12_QueryIsolation ==
    \A p \in Procs :
        pc[p] = "done" =>
            /\ result[p].sources_in_area_of_interest =
                  {to_json(s) : s \in SourcesOfRegion(req[p])}
            /\ result[p].count = Cardinality(SourcesOfRegion(req[p]))
            /\ {a.hpx : a \in RowsOf(p)} = SeqToSet(areas[p])
            /\ Cardinality(RowsOf(p)) = Len(areas[p])

\* a call has returned its sources while another request, for another
\* region, has rows in the table that contain a source the call left out
C12_Witness ==
    \E p \in Procs : \E q \in Procs \ {p} :
        /\ pc[p] = "done"
        /\ result[p].count > 0
        /\ pc[q] \in {"join", "done"}
        /\ req[q] # req[p]
        /\ \E s \in sources \ found[p] : \E a \in RowsOf(q) :
               Contains(a.hpx, s.Heal_Pix_Position)
====
